---- MODULE Spec2Model ----
(***************************************************************************)
(* Sysmon process tree analyzer: the two front ends (sysmon2tree.py, the   *)
(* EVTX reader, and sysmon_csv_tree.py, the CSV reader), their registry,   *)
(* link step, root selection, rendering walk, escaping and the view state  *)
(* of the script embedded in the report.                                   *)
(*                                                                         *)
(* Python values: None and a missing dict key are the empty tuple <<>>, a  *)
(* present value v is <<v>>.  Strings are tuples of one-character strings. *)
(***************************************************************************)
EXTENDS Integers, Sequences, FiniteSets, TLC

VARIABLES
    profile,        \* which family of input units the run draws from
    frontend,       \* "evtx" (sysmon2tree.py) or "csv" (sysmon_csv_tree.py)
    max_events,     \* args.max_events: <<>> (None) or <<n>>
    pc,             \* position of main: start, parsing, parsed, aborted, done
    outcome,        \* how parse_evtx / parse_csv returned: none, ok, notfound, error
    input,          \* the units the reader has yielded so far
    log,            \* the records assigned into self.processes, in order
    processes,      \* self.processes: records in dict (first insertion) order
    total_events,   \* self.total_events
    process_events, \* self.process_events
    skipped_count,  \* parse_evtx's local skipped_count
    html,           \* the written report: <<>> (no file) or <<document>>
    esc_in,         \* the metadata strings of the record given to _gen_proc_html
    esc_out,        \* the text _gen_proc_html embeds for them: <<>> or <<fields>>
    dom,            \* the report's tree of .process elements (parent of each)
    text,           \* each .process element's own text
    loaded,         \* DOMContentLoaded has been dispatched
    display,        \* element.style.display of each .process: "" or "none"
    cshow,          \* the .children block of each .process has class show
    dshow,          \* the .details block of each .process has class show
    toggle,         \* textContent of each .toggle span
    query,          \* value of #searchInput at the last keyup: <<>> or <<q>>
    last            \* the last event the document handled

pipeVars == <<frontend, max_events, pc, outcome, input, log, processes,
              total_events, process_events, skipped_count, html>>
escVars  == <<esc_in, esc_out>>
viewVars == <<dom, text, loaded, display, cshow, dshow, toggle, query, last>>
vars     == <<profile, pipeVars, escVars, viewVars>>

----------------------------------------------------------------------------
(* Bounds *)

MaxUnits == 3
MaxOrderUnits == 4
MaxCap == 2

----------------------------------------------------------------------------
(* Strings *)

None == <<>>
Some(v) == <<v>>
IsNone(o) == o = <<>>
Val(o) == o[1]

Min(a, b) == IF a < b THEN a ELSE b

\* The characters the inputs use, in code point order.
Alphabet == <<"\"", "&", "'", "-", ".", "0", "1", "2", "3", "4", "5", "6", "7",
              "8", "9", ":", "<", ">", "T", "U", "\\", "a", "b", "c", "e", "k",
              "n", "o", "w", "x">>

Code(c) == CHOOSE i \in 1..Len(Alphabet) : Alphabet[i] = c

\* Python's str < str: lexicographic by code point, a proper prefix first.
RECURSIVE StrLess(_, _)
StrLess(a, b) ==
    IF b = <<>> THEN FALSE
    ELSE IF a = <<>> THEN TRUE
    ELSE IF Code(Head(a)) < Code(Head(b)) THEN TRUE
    ELSE IF Code(Head(a)) > Code(Head(b)) THEN FALSE
    ELSE StrLess(Tail(a), Tail(b))

Digits == {"0", "1", "2", "3", "4", "5", "6", "7", "8", "9"}
DigitVal(c) == Code(c) - Code("0")

RECURSIVE DecimalValue(_)
DecimalValue(s) ==
    IF s = <<>> THEN 0
    ELSE DecimalValue(SubSeq(s, 1, Len(s) - 1)) * 10 + DigitVal(s[Len(s)])

\* int(s) for a str: an optional sign and at least one digit, else ValueError
\* (<<>> stands for the raised ValueError).
ParseInt(s) ==
    LET body == IF s /= <<>> /\ s[1] \in {"-", "+"} THEN Tail(s) ELSE s
    IN  IF body = <<>> \/ \E i \in 1..Len(body) : body[i] \notin Digits
        THEN None
        ELSE Some(IF s[1] = "-" THEN 0 - DecimalValue(body) ELSE DecimalValue(body))

\* s[:19]
TsWidth == 19
Truncate(s) == SubSeq(s, 1, Min(Len(s), TsWidth))

\* image.split("\\")[-1] if "\\" in image else image
RECURSIVE Basename(_)
Basename(image) ==
    IF \E i \in 1..Len(image) : image[i] = "\\"
    THEN Basename(Tail(image))
    ELSE image

Unknown == <<"U", "n", "k", "n", "o", "w", "n">>

----------------------------------------------------------------------------
(* Input units: one record of the EVTX log / one row of the CSV export *)

\* wellformed: the record's XML parses (EVTX) / the row's Payload is JSON (CSV)
Unit(wf, eid, pid, ppid, ts, image) ==
    [wellformed |-> wf, EventID |-> eid, ProcessId |-> pid,
     ParentProcessId |-> ppid, TimeCreated |-> ts, Image |-> image,
     CommandLine |-> None, CurrentDirectory |-> None, User |-> None,
     UserName |-> None]

TsBase == <<"2", "0", "2", "4", "-", "0", "1", "-", "0", "1", "T",
            "0", "0", ":", "0", "0", ":", "0">>
T1 == TsBase \o <<"1">>
T3 == TsBase \o <<"3">>
T1frac == T1 \o <<".", "5">>

Num(c) == Some(<<c>>)
ImgA == Some(<<"c", ":", "\\", "a">>)

Malformed  == Unit(FALSE, Some(<<"1">>), None, None, None, None)
OtherEvent == Unit(TRUE, Some(<<"4">>), Num("1"), None, Some(T1), ImgA)
NoEventId  == Unit(TRUE, None, Num("1"), None, Some(T1), ImgA)

DecodeUnits ==
    { Malformed, OtherEvent, NoEventId,
      Unit(TRUE, Some(<<"1">>), None, None, Some(T1), ImgA),
      Unit(TRUE, Some(<<"1">>), Some(<<>>), None, Some(T1), ImgA),
      Unit(TRUE, Some(<<"1">>), Num("x"), None, Some(T1), ImgA),
      Unit(TRUE, Some(<<"1">>), Num("0"), None, Some(T1), ImgA),
      Unit(TRUE, Some(<<"1">>), Some(<<"-", "1">>), None, Some(T1), ImgA),
      Unit(TRUE, Some(<<"1">>), Num("1"), None, Some(T1frac), ImgA),
      Unit(TRUE, Some(<<"1">>), Num("1"), Num("2"), None, None),
      Unit(TRUE, Some(<<"1">>), Num("2"), Num("0"), Some(T3), Some(<<"b">>)),
      Unit(TRUE, Some(<<"1">>), Num("2"), Num("x"), Some(T3), ImgA),
      Unit(TRUE, Some(<<"1">>), Num("3"), Some(<<>>), Some(<<>>), ImgA) }

ForestUnits ==
    { OtherEvent }
    \cup { Unit(TRUE, Some(<<"1">>), Num(p[1]), p[2], None, ImgA) :
             p \in { <<"1", None>>, <<"1", Num("0")>>, <<"1", Num("1")>>,
                     <<"1", Num("2")>>, <<"2", Num("1")>>, <<"2", Num("9")>>,
                     <<"3", Num("1")>>, <<"3", Num("2")>> } }

OrderUnits ==
    { OtherEvent, Unit(TRUE, Some(<<"1">>), Num("1"), None, None, ImgA) }
    \cup { Unit(TRUE, Some(<<"1">>), Num(p[1]), Num("1"), p[2], ImgA) :
             p \in { <<"2", Some(T1)>>, <<"2", Some(T3)>>, <<"3", None>>,
                     <<"3", Some(T1frac)>>, <<"4", Some(T3)>>, <<"4", Some(T1)>> } }

\* A parent and children whose input order is not their timestamp order.
RenderUnits ==
    { OtherEvent, Unit(TRUE, Some(<<"1">>), Num("1"), None, None, ImgA) }
    \cup { Unit(TRUE, Some(<<"1">>), Num(p[1]), Num("1"), p[2], ImgA) :
             p \in { <<"2", Some(T3)>>, <<"3", Some(T1)>>, <<"3", None>> } }

UnitsOf(p) ==
    CASE p = "decode" -> DecodeUnits
      [] p = "forest" -> ForestUnits
      [] p = "order"  -> OrderUnits
      [] p = "render" -> RenderUnits
      [] OTHER        -> {}

LimitOf(p) == IF p = "order" THEN MaxOrderUnits ELSE MaxUnits

----------------------------------------------------------------------------
(* The registry: self.processes, a dict in insertion order *)

ProcessInfo(pid, name, ppid, command_line, current_directory, user, timestamp) ==
    [pid |-> pid, name |-> name, ppid |-> ppid, command_line |-> command_line,
     current_directory |-> current_directory, user |-> user,
     timestamp |-> timestamp, children |-> <<>>]

Keys(reg) == { reg[i].pid : i \in 1..Len(reg) }
IndexOf(reg, pid) == CHOOSE i \in 1..Len(reg) : reg[i].pid = pid
Get(reg, pid) == reg[IndexOf(reg, pid)]

\* self.processes[pid] = rec: a new key goes last, an existing key keeps its place
PutFirstWins(reg, rec) ==
    IF rec.pid \in Keys(reg) THEN reg ELSE Append(reg, rec)
Put(reg, rec) ==
    IF rec.pid \in Keys(reg)
    THEN [reg EXCEPT ![IndexOf(reg, rec.pid)] = rec]
    ELSE Append(reg, rec)

\* dict.get(key, default) on the decoded field mapping
GetOr(field, default) == IF IsNone(field) THEN default ELSE Val(field)

\* EVTX: data[name] = elem.text only when elem.text is non-empty
EvtxData(field) == IF IsNone(field) \/ Val(field) = <<>> THEN None ELSE field

\* The record one unit decodes to: <<>> when nothing is assigned (pid rejected
\* or an exception swallowed), else <<ProcessInfo>>.  d maps the Data names.
MinPidZero(pid) == pid >= 0
MinPid(pid) == pid > 0

Decode(pidField, ppidField, image, cmd, dir, user, timestamp) ==
    LET pid == IF IsNone(pidField) THEN Some(0) ELSE ParseInt(Val(pidField))
    IN  IF IsNone(pid) THEN None                      \* int() raised
        ELSE IF ~MinPid(Val(pid)) THEN None
        ELSE LET hasPpid == ~IsNone(ppidField) /\ Val(ppidField) /= <<>>
                 ppid == IF hasPpid THEN ParseInt(Val(ppidField)) ELSE None
             IN  IF hasPpid /\ IsNone(ppid) THEN None  \* int() raised
                 ELSE Some(ProcessInfo(Val(pid),
                                       Basename(GetOr(image, Unknown)),
                                       ppid, cmd, dir, user, timestamp))

ExtractEvtxRecord(u) ==
    Decode(EvtxData(u.ProcessId), EvtxData(u.ParentProcessId), EvtxData(u.Image),
           GetOr(EvtxData(u.CommandLine), <<>>),
           GetOr(EvtxData(u.CurrentDirectory), <<>>),
           GetOr(EvtxData(u.User), <<>>),
           Truncate(GetOr(u.TimeCreated, <<>>)))

ExtractCsvRecord(u) ==
    IF ~u.wellformed THEN None                        \* json.loads raised
    ELSE Decode(u.ProcessId, u.ParentProcessId, u.Image,
                GetOr(u.CommandLine, <<>>), GetOr(u.CurrentDirectory, <<>>),
                GetOr(u.User, GetOr(u.UserName, <<>>)),
                Truncate(GetOr(u.TimeCreated, <<>>)))

----------------------------------------------------------------------------
(* _build_tree, get_root_processes and the rendering walk *)

\* if proc.ppid and proc.ppid in self.processes
LinksToParent(reg, i) ==
    /\ ~IsNone(reg[i].ppid)
    /\ Val(reg[i].ppid) /= 0
    /\ Val(reg[i].ppid) \in Keys(reg)

\* A link step run while inserting: only a parent already seen gets the child.
LinksToEarlierParent(reg, i) ==
    /\ LinksToParent(reg, i)
    /\ IndexOf(reg, Val(reg[i].ppid)) < i

CanLink(reg, i) == LinksToParent(reg, i)

RECURSIVE BuildFrom(_, _)
BuildFrom(reg, i) ==
    IF i > Len(reg) THEN reg
    ELSE IF CanLink(reg, i)
         THEN BuildFrom([reg EXCEPT ![IndexOf(reg, Val(reg[i].ppid))].children =
                                        Append(@, reg[i].pid)], i + 1)
         ELSE BuildFrom(reg, i + 1)

BuildTree(reg) == BuildFrom(reg, 1)

\* An unstable variant: x goes before the first element whose key is not smaller.
InsertPointUnstable(sorted, x) ==
    IF \E j \in 1..Len(sorted) : ~StrLess(sorted[j].timestamp, x.timestamp)
    THEN CHOOSE j \in 1..Len(sorted) :
            /\ ~StrLess(sorted[j].timestamp, x.timestamp)
            /\ \A k \in 1..(j - 1) : StrLess(sorted[k].timestamp, x.timestamp)
    ELSE Len(sorted) + 1

\* list.sort(key=lambda x: x.timestamp): stable, ascending by str comparison.
\* x goes before the first element whose key is strictly greater.
InsertPoint(sorted, x) ==
    IF \E j \in 1..Len(sorted) : StrLess(x.timestamp, sorted[j].timestamp)
    THEN CHOOSE j \in 1..Len(sorted) :
            /\ StrLess(x.timestamp, sorted[j].timestamp)
            /\ \A k \in 1..(j - 1) : ~StrLess(x.timestamp, sorted[k].timestamp)
    ELSE Len(sorted) + 1

SortInsert(sorted, x) ==
    LET j == InsertPoint(sorted, x)
    IN  SubSeq(sorted, 1, j - 1) \o <<x>> \o SubSeq(sorted, j, Len(sorted))

RECURSIVE SortByTimestamp(_)
SortByTimestamp(list) ==
    IF list = <<>> THEN <<>>
    ELSE SortInsert(SortByTimestamp(SubSeq(list, 1, Len(list) - 1)), list[Len(list)])

\* p.ppid is None or p.ppid not in self.processes
IsRootNoParentOnly(reg, p) == IsNone(p.ppid)
IsRoot(reg, p) == IsNone(p.ppid) \/ Val(p.ppid) \notin Keys(reg)

\* A renderer that starts a walk at every record of the registry.
GetEveryProcess(reg) == SortByTimestamp(reg)

GetRootProcesses(reg) ==
    LET Test(p) == IsRoot(reg, p)
    IN  SortByTimestamp(SelectSeq(reg, Test))

\* One rendered <div class="process">: the pid, the element it is nested in
\* (0 at the top level), its depth and the child count its header shows.
\* revisit marks a call on a pid that is already on the call path: the code
\* has no guard there and would recurse without end.
Node(proc, path, revisit) ==
    [pid |-> proc.pid, parent |-> IF path = <<>> THEN 0 ELSE path[Len(path)],
     depth |-> Len(path), nchildren |-> Len(proc.children), revisit |-> revisit]

RECURSIVE GenProcHtml(_, _, _), GenChildrenHtml(_, _, _)
GenProcHtml(reg, proc, path) ==
    IF \E i \in 1..Len(path) : path[i] = proc.pid
    THEN <<Node(proc, path, TRUE)>>
    ELSE LET InReg(c) == c \in Keys(reg)
             present == SelectSeq(proc.children, InReg)
             children == SortByTimestamp([i \in 1..Len(present) |-> Get(reg, present[i])])
         IN  <<Node(proc, path, FALSE)>>
             \o (IF Len(proc.children) > 0
                 THEN GenChildrenHtml(reg, children, Append(path, proc.pid))
                 ELSE <<>>)

GenChildrenHtml(reg, list, path) ==
    IF list = <<>> THEN <<>>
    ELSE GenProcHtml(reg, Head(list), path) \o GenChildrenHtml(reg, Tail(list), path)

GenTreeHtml(reg, roots) == GenChildrenHtml(reg, roots, <<>>)

Document(reg, total) ==
    LET roots == GetRootProcesses(reg)
    IN  [total |-> Len(reg), roots |-> Len(roots), scanned |-> total,
         tree |-> GenTreeHtml(reg, roots)]

----------------------------------------------------------------------------
(* parse_evtx / parse_csv *)

\* if max_events and <count> > max_events: break
CapReachedAt(cap, count) == ~IsNone(cap) /\ Val(cap) /= 0 /\ count >= Val(cap)
CapReached(cap, count) == ~IsNone(cap) /\ Val(cap) /= 0 /\ count > Val(cap)

\* The unit reaches the extraction call.
Examined(fe, u) ==
    IF fe = "evtx"
    THEN u.wellformed /\ ~IsNone(u.EventID) /\ Val(u.EventID) = <<"1">>
    ELSE u.EventID = Some(<<"1">>)

ExtractRecord(fe, u) ==
    IF fe = "evtx" THEN ExtractEvtxRecord(u) ELSE ExtractCsvRecord(u)

\* The record, if any, that one loop iteration assigns into the registry.
Produced(fe, u) == IF Examined(fe, u) THEN ExtractRecord(fe, u) ELSE None

Store(reg, rec) == Put(reg, rec)

ApplyUnit(fe, reg, u) ==
    IF IsNone(Produced(fe, u)) THEN reg ELSE Store(reg, Val(Produced(fe, u)))

\* The loop body run over a whole sequence of units, no cap.
RECURSIVE Ingest(_, _)
Ingest(fe, units) ==
    IF units = <<>> THEN <<>>
    ELSE ApplyUnit(fe, Ingest(fe, SubSeq(units, 1, Len(units) - 1)), units[Len(units)])

\* process_events after one iteration: the EVTX loop counts every EventID=1
\* unit after the extraction call returns, the CSV extraction counts only
\* next to the assignment.
CountsAsProcess(fe, u) ==
    IF fe = "evtx" THEN Examined(fe, u) ELSE ~IsNone(Produced(fe, u))

OpenInput ==
    /\ pc = "start"
    /\ pc' = "parsing"
    /\ UNCHANGED <<profile, frontend, max_events, outcome, input, log, processes,
                   total_events, process_events, skipped_count, html>>
    /\ UNCHANGED <<escVars, viewVars>>

\* os.path.exists(file_path) is false: print and return
FileNotFound ==
    /\ pc = "start"
    /\ pc' = "aborted"
    /\ outcome' = "notfound"
    /\ UNCHANGED <<profile, frontend, max_events, input, log, processes,
                   total_events, process_events, skipped_count, html>>
    /\ UNCHANGED <<escVars, viewVars>>

\* One iteration of the for loop on the next unit of the file; at the break
\* the rest of the function (the summary and _build_tree) runs as well.
ReadUnit ==
    /\ pc = "parsing"
    /\ Len(input) < LimitOf(profile)
    /\ \E u \in UnitsOf(profile) :
        /\ input' = Append(input, u)
        /\ total_events' = total_events + 1
        /\ IF CapReached(max_events, total_events + 1)
           THEN /\ processes' = BuildTree(processes)
                /\ pc' = "parsed"
                /\ outcome' = "ok"
                /\ UNCHANGED <<log, process_events, skipped_count>>
           ELSE /\ processes' = ApplyUnit(frontend, processes, u)
                /\ log' = IF IsNone(Produced(frontend, u)) THEN log
                          ELSE Append(log, Val(Produced(frontend, u)))
                /\ process_events' = IF CountsAsProcess(frontend, u)
                                     THEN process_events + 1 ELSE process_events
                /\ skipped_count' = IF frontend = "evtx" /\ ~Examined(frontend, u)
                                    THEN skipped_count + 1 ELSE skipped_count
                /\ UNCHANGED <<pc, outcome>>
    /\ UNCHANGED <<profile, frontend, max_events, html>>
    /\ UNCHANGED <<escVars, viewVars>>

\* The reader is exhausted: the summary is printed and _build_tree runs.
EndOfInput ==
    /\ pc = "parsing"
    /\ processes' = BuildTree(processes)
    /\ pc' = "parsed"
    /\ outcome' = "ok"
    /\ UNCHANGED <<profile, frontend, max_events, input, log, total_events,
                   process_events, skipped_count, html>>
    /\ UNCHANGED <<escVars, viewVars>>

\* The reader raises (truncated or corrupt container, undecodable bytes):
\* except Exception prints the error and returns, _build_tree is not run.
StreamError ==
    /\ pc = "parsing"
    /\ pc' = "aborted"
    /\ outcome' = "error"
    /\ UNCHANGED <<profile, frontend, max_events, input, log, processes,
                   total_events, process_events, skipped_count, html>>
    /\ UNCHANGED <<escVars, viewVars>>

\* A renderer that sorts each record's own child list where it is stored
\* (proc.children.sort(...)) instead of a list built for the call.
RegistrySortedInPlace(reg) ==
    LET InReg(c) == c \in Keys(reg)
        Sorted(list) ==
            LET present == SelectSeq(list, InReg)
                recs == SortByTimestamp([i \in 1..Len(present) |-> Get(reg, present[i])])
            IN  [i \in 1..Len(recs) |-> recs[i].pid]
    IN  [i \in 1..Len(reg) |-> [reg[i] EXCEPT !.children = Sorted(@)]]

\* The registry a call of generate_html leaves: roots and children are lists
\* built by comprehensions for the call and sorted there; self.processes and
\* proc.children are only read.
RegistryAfterRender(reg) == reg

\* main calls generate_html after parse_* returned, however it returned; the
\* method can be called again on the same parser object.
GenerateHtml ==
    /\ pc \in {"parsed", "aborted", "done"}
    /\ html' = Some(Document(processes, total_events))
    /\ processes' = RegistryAfterRender(processes)
    /\ pc' = "done"
    /\ UNCHANGED <<profile, frontend, max_events, outcome, input, log,
                   total_events, process_events, skipped_count>>
    /\ UNCHANGED <<escVars, viewVars>>

Caps == {None} \cup { Some(n) : n \in 0..MaxCap }

IdleEsc == esc_in = <<>> /\ esc_out = <<>>
IdleView ==
    /\ dom = <<>> /\ text = <<>> /\ loaded = FALSE /\ display = <<>>
    /\ cshow = <<>> /\ dshow = <<>> /\ toggle = <<>> /\ query = <<>>
    /\ last = "none"

InitPipe(p, caps) ==
    /\ profile = p
    /\ frontend \in {"evtx", "csv"}
    /\ max_events \in caps
    /\ pc = "start"
    /\ outcome = "none"
    /\ input = <<>>
    /\ log = <<>>
    /\ processes = <<>>
    /\ total_events = 0
    /\ process_events = 0
    /\ skipped_count = 0
    /\ html = <<>>
    /\ IdleEsc /\ IdleView

Init == InitPipe("decode", Caps)
InitForest == InitPipe("forest", {None, Some(MaxCap)})
InitOrder == InitPipe("order", {None})
InitRender == InitPipe("render", {None, Some(MaxCap)})

Next ==
    \/ OpenInput
    \/ FileNotFound
    \/ ReadUnit
    \/ EndOfInput
    \/ StreamError
    \/ GenerateHtml

Spec == Init /\ [][Next]_vars
SpecForest == InitForest /\ [][Next]_vars
SpecOrder == InitOrder /\ [][Next]_vars
SpecRender == InitRender /\ [][Next]_vars

----------------------------------------------------------------------------
(* _esc and the metadata strings _gen_proc_html embeds *)

\* str.replace(ch, entity)
RECURSIVE Replace(_, _, _)
Replace(t, ch, entity) ==
    IF t = <<>> THEN <<>>
    ELSE (IF Head(t) = ch THEN entity ELSE <<Head(t)>>) \o Replace(Tail(t), ch, entity)

Amp  == <<"&", "a", "m", "p", ";">>
Lt   == <<"&", "l", "t", ";">>
Gt   == <<"&", "g", "t", ";">>
Quot == <<"&", "q", "u", "o", "t", ";">>

\* t.replace('&','&amp;').replace('<','&lt;').replace('>','&gt;').replace('"','&quot;')
Esc(t) ==
    IF t = <<>> THEN <<>>
    ELSE Replace(Replace(Replace(Replace(t, "&", Amp), "<", Lt), ">", Gt), "\"", Quot)

MaxStrLen == 3
EscChars == {"&", "<", ">", "\"", "'", "a"}
Example == <<"a", "<", "b", ">", "&", "\"", "c", "\"">>
EscStrings == { Example } \cup UNION { [1..k -> EscChars] : k \in 0..MaxStrLen }
EscFields == {"name", "command_line", "current_directory", "user"}

InitEsc ==
    /\ profile = "esc"
    /\ frontend \in {"evtx", "csv"}
    /\ max_events = None
    /\ pc = "parsed"
    /\ outcome = "ok"
    /\ input = <<>>
    /\ log = <<>>
    /\ processes = <<>>
    /\ total_events = 0
    /\ process_events = 0
    /\ skipped_count = 0
    /\ html = <<>>
    /\ esc_in \in [field : EscFields, value : EscStrings]
    /\ esc_out = <<>>
    /\ IdleView

\* _gen_proc_html embeds one metadata string of the record: the name always,
\* the others when they are not empty.
EmbedField ==
    /\ profile = "esc"
    /\ esc_out = <<>>
    /\ esc_in.field = "name" \/ esc_in.value /= <<>>
    /\ esc_out' = Some(Esc(esc_in.value))
    /\ UNCHANGED <<profile, pipeVars, esc_in, viewVars>>

NextEsc == EmbedField
SpecEsc == InitEsc /\ [][NextEsc]_vars

----------------------------------------------------------------------------
(* The report opened in a browser: the embedded style sheet and script *)

MaxNodes == 3

\* The .process elements are numbered in document order; dom[i] is the
\* element i is nested in (0: directly in .tree-container), as _gen_proc_html
\* nests them: each element follows its parent or a subtree of that parent.
RECURSIVE AncestorsOf(_, _)
AncestorsOf(d, i) ==
    IF d[i] = 0 THEN {} ELSE {d[i]} \cup AncestorsOf(d, d[i])

Forests(n) ==
    { d \in [1..n -> 0..(n - 1)] :
        /\ d[1] = 0
        /\ \A i \in 2..n : d[i] < i /\ d[i] \in {0, i - 1} \cup AncestorsOf(d, i - 1) }

NodeTexts == { <<"a">>, <<"B">> }
Queries == { <<>>, <<"A">>, <<"b">>, <<"a", "b">> }

Nodes == 1..Len(dom)
HasCh(i) == \E j \in Nodes : dom[j] = i
TopLevel == { i \in Nodes : dom[i] = 0 }

Plus  == <<"[", "+", "]">>
Minus == <<"[", "-", "]">>

\* str.toLowerCase()
Lower(c) == CASE c = "A" -> "a" [] c = "B" -> "b" [] OTHER -> c
LowerStr(t) == [i \in 1..Len(t) |-> Lower(t[i])]

\* str.includes(f)
Includes(t, f) ==
    \E k \in 0..(Len(t) - Len(f)) : SubSeq(t, k + 1, k + Len(f)) = f

\* element.textContent of a .process: its toggle, its own header and details
\* text, then the text of the elements nested in it, in document order
RECURSIVE TextContent(_), TextOfFrom(_, _)
TextContent(i) == toggle[i] \o text[i] \o TextOfFrom(i, i + 1)
TextOfFrom(p, j) ==
    IF j > Len(dom) THEN <<>>
    ELSE (IF dom[j] = p THEN TextContent(j) ELSE <<>>) \o TextOfFrom(p, j + 1)

Matches(i, f) == Includes(LowerStr(TextContent(i)), f)

\* The script element of sysmon2tree.py leaves the call of addEventListener
\* that starts its first DOMContentLoaded handler unclosed: the script is a
\* syntax error, none of it runs and none of its functions is defined.  The
\* script of sysmon_csv_tree.py parses.
ScriptRuns(fe) == fe = "csv"

\* .children{display:none} .children.show{display:block}, no class at first;
\* the toggle is "[+]" for a record with children, else empty
InitView(fes) ==
    /\ profile = "view"
    /\ frontend \in fes
    /\ max_events = None
    /\ pc = "done"
    /\ outcome = "ok"
    /\ input = <<>>
    /\ log = <<>>
    /\ processes = <<>>
    /\ total_events = 0
    /\ process_events = 0
    /\ skipped_count = 0
    /\ html = <<>>
    /\ IdleEsc
    /\ \E n \in 1..MaxNodes :
          /\ dom \in Forests(n)
          /\ text \in [1..n -> NodeTexts]
          /\ display = [i \in 1..n |-> ""]
          /\ cshow = [i \in 1..n |-> FALSE]
          /\ dshow = [i \in 1..n |-> FALSE]
    /\ toggle = [i \in 1..Len(dom) |-> IF \E j \in 1..Len(dom) : dom[j] = i
                                       THEN Plus ELSE <<>>]
    /\ loaded = FALSE
    /\ query = <<>>
    /\ last = "none"

\* The DOMContentLoaded handler (both files, the same effect): every
\* .process directly in .tree-container that holds a .children block gets it
\* shown and its toggle set to [-].
OnLoadShow == [i \in Nodes |-> IF i \in TopLevel /\ HasCh(i) THEN TRUE ELSE cshow[i]]

LoadDocument ==
    /\ profile = "view"
    /\ ~loaded
    /\ loaded' = TRUE
    /\ last' = "load"
    /\ IF ScriptRuns(frontend)
       THEN /\ cshow' = OnLoadShow
            /\ toggle' = [i \in Nodes |-> IF i \in TopLevel /\ HasCh(i)
                                          THEN Minus ELSE toggle[i]]
       ELSE UNCHANGED <<cshow, toggle>>
    /\ UNCHANGED <<profile, pipeVars, escVars, dom, text, display, dshow, query>>

\* On screen: not hidden itself and every element it is nested in is shown
\* with its .children block open.
RECURSIVE OnScreen(_)
OnScreen(i) ==
    IF display[i] /= "" THEN FALSE
    ELSE IF dom[i] = 0 THEN TRUE
    ELSE cshow[dom[i]] /\ OnScreen(dom[i])

\* onclick of a .process-header: toggleProcess(header)
ToggleProcess ==
    /\ profile = "view"
    /\ loaded
    /\ \E i \in Nodes :
        /\ OnScreen(i)
        /\ last' = "toggle"
        /\ IF ScriptRuns(frontend)
           THEN /\ dshow' = [dshow EXCEPT ![i] = ~@]
                /\ IF HasCh(i)
                   THEN /\ cshow' = [cshow EXCEPT ![i] = ~@]
                        /\ toggle' = [toggle EXCEPT ![i] = IF cshow[i] THEN Plus ELSE Minus]
                   ELSE UNCHANGED <<cshow, toggle>>
           ELSE UNCHANGED <<dshow, cshow, toggle>>
    /\ UNCHANGED <<profile, pipeVars, escVars, dom, text, loaded, display, query>>

\* expandAll(): sysmon_csv_tree.py opens every .children block and writes [-]
\* into every toggle; sysmon2tree.py also opens every .details block and
\* leaves an empty toggle empty.
ExpandAll ==
    /\ profile = "view"
    /\ loaded
    /\ last' = "expand"
    /\ IF ~ScriptRuns(frontend) THEN UNCHANGED <<cshow, dshow, toggle>>
       ELSE /\ cshow' = [i \in Nodes |-> TRUE]
            /\ IF frontend = "csv"
               THEN /\ toggle' = [i \in Nodes |-> Minus]
                    /\ UNCHANGED dshow
               ELSE /\ toggle' = [i \in Nodes |-> IF toggle[i] /= <<>> THEN Minus ELSE <<>>]
                    /\ dshow' = [i \in Nodes |-> TRUE]
    /\ UNCHANGED <<profile, pipeVars, escVars, dom, text, loaded, display, query>>

\* collapseAll(): the reverse
CollapseAll ==
    /\ profile = "view"
    /\ loaded
    /\ last' = "collapse"
    /\ IF ~ScriptRuns(frontend) THEN UNCHANGED <<cshow, dshow, toggle>>
       ELSE /\ cshow' = [i \in Nodes |-> FALSE]
            /\ IF frontend = "csv"
               THEN /\ toggle' = [i \in Nodes |-> Plus]
                    /\ UNCHANGED dshow
               ELSE /\ toggle' = [i \in Nodes |-> IF toggle[i] /= <<>> THEN Plus ELSE <<>>]
                    /\ dshow' = [i \in Nodes |-> FALSE]
    /\ UNCHANGED <<profile, pipeVars, escVars, dom, text, loaded, display, query>>

\* searchProcess() of sysmon_csv_tree.py: every .process is shown when its
\* text includes the lower-cased input, hidden otherwise; nothing else.
SearchCsv(f) ==
    /\ display' = [i \in Nodes |-> IF Matches(i, f) THEN "" ELSE "none"]
    /\ UNCHANGED <<cshow, toggle>>

\* searchProcess() of sysmon2tree.py: an empty input shows every .process;
\* otherwise all are hidden, then each whose text includes the input is shown
\* and, going up from it, every .process is shown and every .children block
\* opened, with [-] in the toggle of the element holding the block.
OpensBlock(a, f) == \E i \in Nodes : Matches(i, f) /\ a \in AncestorsOf(dom, i)

SearchEvtx(f) ==
    IF f = <<>>
    THEN /\ display' = [i \in Nodes |-> ""]
         /\ UNCHANGED <<cshow, toggle>>
    ELSE /\ display' = [i \in Nodes |->
                          IF Matches(i, f) \/ OpensBlock(i, f) THEN "" ELSE "none"]
         /\ cshow' = [a \in Nodes |-> IF OpensBlock(a, f) THEN TRUE ELSE cshow[a]]
         /\ toggle' = [a \in Nodes |-> IF OpensBlock(a, f) /\ ~(toggle[a] = <<>> /\ ~HasCh(a))
                                       THEN Minus ELSE toggle[a]]

\* onkeyup of #searchInput
SearchProcess ==
    /\ profile = "view"
    /\ loaded
    /\ \E q \in Queries :
        /\ query' = Some(q)
        /\ last' = "search"
        /\ IF ~ScriptRuns(frontend) THEN UNCHANGED <<display, cshow, toggle>>
           ELSE IF frontend = "csv" THEN SearchCsv(LowerStr(q))
           ELSE SearchEvtx(LowerStr(q))
    /\ UNCHANGED <<profile, pipeVars, escVars, dom, text, loaded, dshow>>

NextView == LoadDocument \/ ToggleProcess \/ ExpandAll \/ CollapseAll \/ SearchProcess
InitViewAll == InitView({"evtx", "csv"})
SpecView == InitViewAll /\ [][NextView]_vars

----------------------------------------------------------------------------
(* Claims *)

Bare(r) == [r EXCEPT !.children = <<>>]
LastLogged(pid) ==
    log[CHOOSE i \in 1..Len(log) :
            /\ log[i].pid = pid
            /\ \A j \in (i + 1)..Len(log) : log[j].pid /= pid]

\* C1: after any sequence of insertions the registry holds exactly one record
\* per distinct pid inserted, and that record equals, in all decoded fields,
\* the last record inserted with that pid (no merging with an earlier one).
C1_LastWriteWins ==
    /\ Keys(processes) = { log[i].pid : i \in 1..Len(log) }
    /\ \A i, j \in 1..Len(processes) :
          processes[i].pid = processes[j].pid => i = j
    /\ \A i \in 1..Len(processes) :
          Bare(processes[i]) = LastLogged(processes[i].pid)

\* A pid was inserted twice with different records and the registry holds
\* the later one.
C1_Witness ==
    \E i, j \in 1..Len(log) :
        /\ i < j
        /\ log[i].pid = log[j].pid
        /\ log[i] /= log[j]
        /\ \A k \in (j + 1)..Len(log) : log[k].pid /= log[j].pid
        /\ Bare(Get(processes, log[j].pid)) = log[j]

----------------------------------------------------------------------------
\* The units of the input that went through the loop body: all that were
\* read, but for the one at which the cap broke the loop.
Broke == CapReached(max_events, Len(input))
ExaminedLen == IF Broke THEN Len(input) - 1 ELSE Len(input)
Linked == outcome = "ok"

\* The unit the registry's record of pid was decoded from.
SourceUnit(pid) ==
    input[CHOOSE i \in 1..ExaminedLen :
            /\ ~IsNone(Produced(frontend, input[i]))
            /\ Val(Produced(frontend, input[i])).pid = pid
            /\ \A j \in (i + 1)..ExaminedLen :
                  IsNone(Produced(frontend, input[j]))
                  \/ Val(Produced(frontend, input[j])).pid /= pid]

\* ParentProcessId is missing (or empty) or zero in the source unit
ParentAbsent(u) ==
    \/ IsNone(u.ParentProcessId)
    \/ Val(u.ParentProcessId) = <<>>
    \/ ParseInt(Val(u.ParentProcessId)) = Some(0)

RootSet(reg) ==
    LET roots == GetRootProcesses(reg)
    IN  { roots[i].pid : i \in 1..Len(roots) }
Edges(reg) ==
    UNION { { <<reg[i].pid, reg[i].children[k]>> : k \in 1..Len(reg[i].children) } :
            i \in 1..Len(reg) }
Content(reg) == { Bare(reg[i]) : i \in 1..Len(reg) }

Perms(n) == { f \in [1..n -> 1..n] : \A a, b \in 1..n : f[a] = f[b] => a = b }
Permuted(units, f) == [i \in 1..Len(units) |-> units[f[i]]]

\* The whole run of parse_* on a file holding the given units.
RunOn(units) ==
    BuildTree(Ingest(frontend,
                     IF CapReached(max_events, Len(units))
                     THEN SubSeq(units, 1, Val(max_events)) ELSE units))

RootIffNoParent ==
    LET roots == RootSet(processes)
    IN  \A i \in 1..Len(processes) :
            LET r == processes[i]
                u == SourceUnit(r.pid)
            IN  r.pid \in roots
                <=> \/ ParentAbsent(u)
                    \/ Val(ParseInt(Val(u.ParentProcessId))) \notin Keys(processes)

SameForest(reg, roots, edges) ==
    /\ RootSet(reg) = roots
    /\ Edges(reg) = edges

DistinctPids == \A i, j \in 1..Len(log) : log[i].pid = log[j].pid => i = j

\* C2 as claimed: after ingestion and linking a record is a root iff its
\* parent id is absent or names no record of the final registry, and the
\* root set and the edges are the same for every permutation of the input
\* (read in the claim's favour: of an input the cap did not cut short).
C2_AnyPermutation ==
    (pc = "parsed" /\ ~Broke) =>
        /\ RootIffNoParent
        /\ LET roots == RootSet(processes)
               edges == Edges(processes)
           IN  \A f \in Perms(Len(input)) :
                   SameForest(RunOn(Permuted(input, f)), roots, edges)

\* C2 amended: the root rule holds as claimed; the root set and the edges
\* are the same for every permutation of the input that leaves the registry
\* with the same records, which is every permutation when the inserted pids
\* are pairwise distinct and the cap does not cut the input short.
C2_RootsAndEdges ==
    pc = "parsed" =>
        /\ RootIffNoParent
        /\ LET roots == RootSet(processes)
               edges == Edges(processes)
               content == Content(processes)
           IN  \A f \in Perms(Len(input)) :
                   LET reg == RunOn(Permuted(input, f))
                   IN  /\ (DistinctPids /\ ~Broke) => Content(reg) = content
                       /\ Content(reg) = content => SameForest(reg, roots, edges)

\* A child read before its parent is linked to it, next to a root whose
\* parent id names no record and a root whose parent id is zero or missing.
C2_Witness ==
    /\ pc = "parsed"
    /\ \E i, j \in 1..Len(processes) :
          /\ i < j
          /\ processes[i].ppid = Some(processes[j].pid)
          /\ <<processes[j].pid, processes[i].pid>> \in Edges(processes)
          /\ processes[j].pid \in RootSet(processes)
    /\ Len(processes) = 3

----------------------------------------------------------------------------
Reserved == {"&", "<", ">", "\"", "'"}
Entities == {Amp, Lt, Gt, Quot, <<"&", "#", "3", "9", ";">>,
             <<"&", "#", "x", "2", "7", ";">>, <<"&", "a", "p", "o", "s", ";">>}
StartsEntity(t, i) ==
    \E e \in Entities : i + Len(e) - 1 <= Len(t) /\ SubSeq(t, i, i + Len(e) - 1) = e
ExampleEscaped ==
    <<"a">> \o Lt \o <<"b">> \o Gt \o Amp \o Quot \o <<"c">> \o Quot

\* C3: every metadata string is embedded with each of the five reserved
\* characters & < > " ' replaced by an entity: the embedded text holds no raw
\* < > " ' and every & in it starts an entity; a<b>&"c" is embedded as
\* a&lt;b&gt;&amp;&quot;c&quot;.
C3_FiveEscaped ==
    esc_out /= <<>> =>
        LET out == Val(esc_out)
        IN  /\ \A i \in 1..Len(out) :
                  /\ out[i] \notin (Reserved \ {"&"})
                  /\ out[i] = "&" => StartsEntity(out, i)
            /\ esc_in.value = Example => out = ExampleEscaped

\* What the code does keep of C3: the four characters & < > " never reach
\* the embedded text raw, and the example is embedded as the claim says.
C3_FourEscaped ==
    esc_out /= <<>> =>
        LET out == Val(esc_out)
        IN  /\ \A i \in 1..Len(out) :
                  /\ out[i] \notin {"<", ">", "\""}
                  /\ out[i] = "&" => StartsEntity(out, i)
            /\ esc_in.value = Example => out = ExampleEscaped

----------------------------------------------------------------------------
\* C4: when the input source does not exist, or ingestion aborts on a
\* decode-stream error, no report document is written afterwards.
C4_NoReportAfterFatal == outcome \in {"notfound", "error"} => html = <<>>

----------------------------------------------------------------------------
CapActive == ~IsNone(max_events) /\ Val(max_events) >= 1
CapPrefix == SubSeq(input, 1, Min(Val(max_events), Len(input)))

\* The pids the edges lead to from the roots.
RECURSIVE Reach(_, _)
Reach(seen, edges) ==
    LET more == seen \cup { e[2] : e \in { x \in edges : x[1] \in seen } }
    IN  IF more = seen THEN seen ELSE Reach(more, edges)

Rendered == { Val(html).tree[i].pid : i \in 1..Len(Val(html).tree) }

----------------------------------------------------------------------------
\* An optional sign and digits only
IsDecimal(t) ==
    LET body == IF t /= <<>> /\ t[1] \in {"-", "+"} THEN Tail(t) ELSE t
    IN  body /= <<>> /\ \A i \in 1..Len(body) : body[i] \in Digits

\* ProcessId is absent, non-numeric, or <= 0
InvalidPid(u) ==
    \/ IsNone(u.ProcessId)
    \/ ~IsDecimal(Val(u.ProcessId))
    \/ Val(u.ProcessId)[1] = "-"
    \/ DecimalValue(IF Val(u.ProcessId)[1] = "+" THEN Tail(Val(u.ProcessId))
                    ELSE Val(u.ProcessId)) = 0

BareReg(reg) == [i \in 1..Len(reg) |-> Bare(reg[i])]

\* C7: a unit whose ProcessId is absent, non-numeric or <= 0 is never
\* inserted: reading it leaves the registry's records unchanged, raises no
\* error and ingestion goes on (or ends at the cap); every key of the
\* registry is a positive integer.
C7_InvalidPidRejected ==
    /\ [](\A i \in 1..Len(processes) : processes[i].pid > 0)
    /\ [][(Len(input') = Len(input) + 1 /\ InvalidPid(input'[Len(input')])) =>
             /\ BareReg(processes') = BareReg(processes)
             /\ log' = log
             /\ outcome' /= "error"
             /\ pc' = IF CapReached(max_events, Len(input')) THEN "parsed" ELSE "parsing"]_vars

\* A unit with EventID 1 and a ProcessId of zero, below zero, or not a number
\* went through the loop body after a record was inserted, and ingestion
\* goes on.
C7_Witness ==
    /\ pc = "parsing"
    /\ Len(input) >= 2
    /\ Examined(frontend, input[Len(input)])
    /\ ~IsNone(input[Len(input)].ProcessId)
    /\ InvalidPid(input[Len(input)])
    /\ Len(processes) = 1

----------------------------------------------------------------------------
\* C8: every unit that is skipped (not a process creation, or no record is
\* produced from it) counts in total_events but not in process_events, in
\* both front ends: process_events is the number of units a record was
\* produced from, and registry size <= process_events <= total_events.
C8_QualifyingCount ==
    /\ process_events = Len(log)
    /\ Len(processes) <= process_events
    /\ process_events <= total_events

\* What both front ends do keep of C8.
C8_CountersOrdered ==
    /\ Len(processes) <= process_events
    /\ process_events <= total_events
    /\ total_events = Len(input)
    /\ frontend = "csv" => process_events = Len(log)

----------------------------------------------------------------------------
\* a < b as strings: a is a proper prefix of b, or the first character they
\* differ in has the smaller code point in a.
StrBefore(a, b) ==
    \E k \in 0..Min(Len(a), Len(b)) :
        /\ SubSeq(a, 1, k) = SubSeq(b, 1, k)
        /\ \/ k = Len(a) /\ k < Len(b)
           \/ k < Len(a) /\ k < Len(b) /\ Code(a[k + 1]) < Code(b[k + 1])

\* The rendered elements nested directly in the element of pid p (0: the
\* top level of the tree container), in document order.
Siblings(p) ==
    LET Under(n) == n.parent = p
    IN  SelectSeq(Val(html).tree, Under)

ChildrenOf(p) ==
    { processes[i].pid : i \in { j \in 1..Len(processes) :
                                   processes[j].ppid = Some(p) } }

InOrder(a, b) ==
    \/ StrBefore(Get(processes, a).timestamp, Get(processes, b).timestamp)
    \/ /\ Get(processes, a).timestamp = Get(processes, b).timestamp
       /\ IndexOf(processes, a) < IndexOf(processes, b)

SortedSiblings(p) ==
    LET sib == Siblings(p)
    IN  \A i, j \in 1..Len(sib) : i < j => InOrder(sib[i].pid, sib[j].pid)

\* C6: in the written report the root sequence and every rendered record's
\* child sequence hold the roots, respectively that record's linked children,
\* ordered by timestamp ascending under string comparison, the empty
\* timestamp first, records with equal timestamps in registry order.
C6_StableTimestampOrder ==
    html /= <<>> =>
        /\ SortedSiblings(0)
        /\ { Siblings(0)[i].pid : i \in 1..Len(Siblings(0)) } = RootSet(processes)
        /\ \A p \in Rendered :
              /\ SortedSiblings(p)
              /\ Linked =>
                    { Siblings(p)[i].pid : i \in 1..Len(Siblings(p)) } = ChildrenOf(p)

\* A parent whose children carry, in registry order, the timestamps
\* t1, empty, t3 with t1 < t3, rendered in the order empty, t1, t3.
C6_Witness ==
    /\ html /= <<>>
    /\ \E p \in Keys(processes) :
          LET ch == Get(processes, p).children
              sib == Siblings(p)
          IN  /\ Len(ch) = 3 /\ Len(sib) = 3
              /\ Get(processes, ch[1]).timestamp = T1
              /\ Get(processes, ch[2]).timestamp = <<>>
              /\ Get(processes, ch[3]).timestamp = T3
              /\ <<sib[1].pid, sib[2].pid, sib[3].pid>> = <<ch[2], ch[1], ch[3]>>

\* Two roots with the same truncated timestamp, the one with the larger pid
\* first in the registry, rendered in registry order.
C6_TieWitness ==
    /\ html /= <<>>
    /\ \E i, j \in 1..Len(Siblings(0)) :
          /\ i < j
          /\ Siblings(0)[i].pid > Siblings(0)[j].pid
          /\ Get(processes, Siblings(0)[i].pid).timestamp = T1
          /\ Get(processes, Siblings(0)[j].pid).timestamp = T1

----------------------------------------------------------------------------
OwnMatch(i, q) == Includes(LowerStr(text[i]), LowerStr(q))

Reachable(i) ==
    /\ display[i] = ""
    /\ \A a \in AncestorsOf(dom, i) : display[a] = "" /\ cshow[a]

\* C9: right after a search with a non-empty query, every node whose own
\* text contains the query, case-insensitively, is visible, with every
\* ancestor visible and every ancestor's child block expanded, whatever the
\* view state before the search, in the report of both front ends.
C9_SearchReachable ==
    (last = "search" /\ Val(query) /= <<>>) =>
        \A i \in Nodes : OwnMatch(i, Val(query)) => Reachable(i)

\* C9 for the report of one front end.
C9_SearchReachableCsv == frontend = "csv" => C9_SearchReachable
C9_SearchReachableEvtx == frontend = "evtx" => C9_SearchReachable

\* What the CSV report's search does keep of C9: the matching node and its
\* ancestors are not hidden (their child blocks stay as they were).
C9_CsvMatchesNotHidden ==
    (frontend = "csv" /\ last = "search") =>
        \A i \in Nodes : OwnMatch(i, Val(query)) =>
            /\ display[i] = ""
            /\ \A a \in AncestorsOf(dom, i) : display[a] = ""

\* C10: once the document is loaded and before any interaction, the child
\* block of every node that has children is expanded, at every depth.
C10_AllExpandedAtLoad ==
    last = "load" => \A i \in Nodes : HasCh(i) => cshow[i]

\* C10 for the report of one front end.
C10_AllExpandedAtLoadCsv == frontend = "csv" => C10_AllExpandedAtLoad
C10_AllExpandedAtLoadEvtx == frontend = "evtx" => C10_AllExpandedAtLoad

\* What the CSV report does at load: the top level only.
C10_CsvTopLevelExpanded ==
    (frontend = "csv" /\ last = "load") =>
        \A i \in Nodes : cshow[i] <=> (HasCh(i) /\ dom[i] = 0)

----------------------------------------------------------------------------
\* The records whose child list differs between two registries.
ChildListsChanged(before, after) ==
    \E i \in 1..Len(after) :
        after[i].children /= (IF i <= Len(before) /\ before[i].pid = after[i].pid
                              THEN before[i].children ELSE <<>>)

----------------------------------------------------------------------------
\* The pids of the elements the element at position k of the rendered tree
\* is nested in: the call path of the walk when it reached k.
RECURSIVE PathOf(_, _)
PathOf(tree, k) ==
    IF tree[k].depth = 0 THEN {}
    ELSE LET up == CHOOSE j \in 1..(k - 1) :
                      /\ tree[j].depth = tree[k].depth - 1
                      /\ \A m \in (j + 1)..(k - 1) : tree[m].depth >= tree[k].depth
         IN  {tree[up].pid} \cup PathOf(tree, up)

\* Some record names itself, or a record that names it, as its parent.
HasParentCycle(reg) ==
    \E i, j \in 1..Len(reg) :
        /\ reg[i].ppid = Some(reg[j].pid)
        /\ reg[j].ppid = Some(reg[i].pid)

\* C12: the walk of the renderer from the roots over the child lists ends
\* for every registry, parent ids on a cycle and a record that is its own
\* parent included: it is never called on a pid that is on the current
\* root-to-node path, it visits no pid twice, and its depth stays below the
\* number of records.
C12_WalkTerminates ==
    html /= <<>> =>
        LET tree == Val(html).tree
        IN  /\ \A k \in 1..Len(tree) :
                  /\ ~tree[k].revisit
                  /\ tree[k].pid \notin PathOf(tree, k)
                  /\ tree[k].depth < Len(processes)
            /\ \A k, m \in 1..Len(tree) : tree[k].pid = tree[m].pid => k = m
            /\ Len(tree) <= Len(processes)

\* A report was written for a registry that holds a record that is its own
\* parent next to a root with a rendered child.
C12_Witness ==
    /\ pc = "done"
    /\ Linked
    /\ \E i \in 1..Len(processes) : processes[i].ppid = Some(processes[i].pid)
    /\ \E k \in 1..Len(Val(html).tree) : Val(html).tree[k].depth = 1

\* A report was written for a registry in which two records name each other
\* as parent.
C12_CycleWitness ==
    /\ pc = "done"
    /\ Linked
    /\ \E i, j \in 1..Len(processes) :
          /\ i /= j
          /\ processes[i].ppid = Some(processes[j].pid)
          /\ processes[j].ppid = Some(processes[i].pid)

----------------------------------------------------------------------------
\* Following parent ids upwards from pid for n steps never leaves the
\* registry: with n = Len(reg) the record hangs under a cycle of parent ids
\* (or is on one) and no root is above it.
RECURSIVE NoRootAbove(_, _, _)
NoRootAbove(reg, pid, n) ==
    IF n = 0 THEN TRUE
    ELSE LET p == Get(reg, pid)
         IN  IF IsRoot(reg, p) THEN FALSE
             ELSE NoRootAbove(reg, Val(p.ppid), n - 1)

\* How many elements of the rendered tree carry pid.
TimesRendered(pid) ==
    Cardinality({ k \in 1..Len(Val(html).tree) : Val(html).tree[k].pid = pid })

\* C13: after a completed ingestion and link step every record of the
\* registry appears in the rendered tree exactly once, so the number of
\* rendered elements is the 'Total Processes' count, also when parent ids
\* form a cycle or a record names itself as parent.
C13_EveryRecordRendered ==
    (pc = "done" /\ Linked) =>
        /\ \A pid \in Keys(processes) : TimesRendered(pid) = 1
        /\ Len(Val(html).tree) = Val(html).total
        /\ Val(html).total = Len(processes)

\* What the renderer does keep of C13: a record is rendered, exactly once,
\* iff following parent ids from it ends at a root; the records on or under
\* a cycle of parent ids are counted in 'Total Processes' and not rendered.
C13_RenderedIffUnderRoot ==
    (pc = "done" /\ Linked) =>
        /\ \A pid \in Keys(processes) :
              TimesRendered(pid) =
                 IF NoRootAbove(processes, pid, Len(processes)) THEN 0 ELSE 1
        /\ Val(html).total = Len(processes)
        /\ HasParentCycle(processes) => Len(Val(html).tree) < Val(html).total

----------------------------------------------------------------------------
\* C14: after ingestion with a cap N >= 1 the total-events counter, shown as
\* 'Scanned Events', is the number of units examined for insertion, min(M, N)
\* for an input of M units, and never exceeds the cap; without a cap, or with
\* cap 0, it is M.  (Ingestion that ended at the break read N + 1 <= M units,
\* ingestion that ended at the end of the input read all M <= N of them.)
C14_ScannedIsExamined ==
    Linked =>
        /\ total_events = ExaminedLen
        /\ CapActive => total_events = Min(Len(input), Val(max_events))
        /\ CapActive => total_events <= Val(max_events)
        /\ ~CapActive => total_events = Len(input)
        /\ html /= <<>> => Val(html).scanned = total_events

\* What the counter does hold: the number of units read from the input,
\* the one the loop breaks on included, so min(M, N + 1) under a cap N >= 1.
C14_ScannedCountsBreakUnit ==
    Linked =>
        /\ total_events = Len(input)
        /\ total_events = IF Broke THEN ExaminedLen + 1 ELSE ExaminedLen
        /\ CapActive => total_events <= Val(max_events) + 1
        /\ Broke => total_events = Val(max_events) + 1
        /\ html /= <<>> => Val(html).scanned = total_events

====
